---- MODULE Spec2Model ----
(***************************************************************************)
(* A model of src/src/graphs.py: the bijection classes OneToOne and        *)
(* Permutation, the relation-set generators, and the Graph class with its  *)
(* symmetry analysis (init_symmetries) and subgraph search (yield_matches, *)
(* yield_matching_subgraphs).                                              *)
(*                                                                         *)
(* Nodes and things are small naturals.  A Python 2 dictionary whose keys  *)
(* are small non-negative integers is iterated in increasing key order, so *)
(* every iteration over such a dictionary is modelled as increasing order. *)
(* A generator is modelled by the sequence of the values it yields.        *)
(***************************************************************************)
EXTENDS Naturals, Sequences, FiniteSets, TLC

\* ------------------------------------------------------------------ bounds
MaxNode == 4         \* symmetry analysis: pattern nodes are 0 .. MaxNode-1
MaxEdges == 3        \* symmetry analysis: longest pattern edge list
MaxSearchNode == 3   \* search: pattern nodes are 0 .. MaxSearchNode-1
MaxSearchEdges == 2  \* search: longest pattern edge list
MaxThing == 3        \* search: target things are 0 .. MaxThing-1
MaxThingEdges == 2   \* search: longest target edge list
MaxLabel == 3        \* bijections alone: sources and destinations
MaxParseNode == 3    \* filters: pattern nodes are 0 .. MaxParseNode-1
MaxParseEdges == 3   \* filters: longest pattern edge list
MaxShift == 1        \* filters: the match sends node n to thing n + shift
MaxRejected == 1     \* filters: things (bonds) one criterion rejects

\* ---------------------------------------------------------------- helpers
\* the keys of a dictionary in iteration order (increasing)
RECURSIVE SortedSeq(_)
SortedSeq(S) ==
  IF S = {} THEN << >>
  ELSE LET m == CHOOSE x \in S : \A y \in S : x <= y
       IN  <<m>> \o SortedSeq(S \ {m})

Range(s) == {s[i] : i \in DOMAIN s}

InSeq(x, s) == \E i \in DOMAIN s : s[i] = x

\* list[:index] + list[index+1:] (positions are 1-based here)
RemoveAt(s, i) == SubSeq(s, 1, i - 1) \o SubSeq(s, i + 1, Len(s))

\* list[index+1:]
After(s, i) == SubSeq(s, i + 1, Len(s))

\* a for loop over i = from .. to that collects the values of F(i), each a
\* sequence, into one sequence
RECURSIVE FlatMap(_, _, _)
FlatMap(F(_), from, to) ==
  IF from > to THEN << >> ELSE F(from) \o FlatMap(F, from + 1, to)

\* [pair] + relation_set, for every relation_set of a sequence
PrependAll(pair, relation_sets) ==
  FlatMap(LAMBDA k : << <<pair>> \o relation_sets[k] >>, 1, Len(relation_sets))

\* ---------------------------------------------------------------- OneToOne
EmptyMap == [x \in {} |-> 0]

\* OneToOne.__init__ / Permutation(): two empty dictionaries
OneToOne == [forward |-> EmptyMap, backward |-> EmptyMap]

\* dict[key] = value
Put(f, k, v) == (k :> v) @@ f

len(m) == Cardinality(DOMAIN m.forward)

in_sources(m, source) == source \in DOMAIN m.forward

\* a slip: the destination is looked up among the sources
in_destinations_among_sources(m, destination) == destination \in DOMAIN m.forward

in_destinations(m, destination) == destination \in DOMAIN m.backward

get_destination(m, source) == m.forward[source]

get_source(m, destination) == m.backward[destination]

\* a slip: the destination is not looked up in backward
add_relation_no_destination_check(m, source, destination) ==
  IF in_sources(m, source)
  THEN [ok |-> m.forward[source] = destination, m |-> m]
  ELSE [ok |-> TRUE,
        m  |-> [forward  |-> Put(m.forward, source, destination),
                backward |-> Put(m.backward, destination, source)]]

\* a slip: a relation that is already present is refused
add_relation_refuses_known_relation(m, source, destination) ==
  IF in_sources(m, source) \/ in_destinations(m, destination)
  THEN [ok |-> FALSE, m |-> m]
  ELSE [ok |-> TRUE,
        m  |-> [forward  |-> Put(m.forward, source, destination),
                backward |-> Put(m.backward, destination, source)]]

\* OneToOne.add_relation: the returned flag and the bijection afterwards
add_relation(m, source, destination) ==
  IF in_sources(m, source)
  THEN [ok |-> m.forward[source] = destination, m |-> m]
  ELSE IF in_destinations(m, destination)
  THEN [ok |-> FALSE, m |-> m]
  ELSE [ok |-> TRUE,
        m  |-> [forward  |-> Put(m.forward, source, destination),
                backward |-> Put(m.backward, destination, source)]]

\* OneToOne.__copy__
copy(m) == [forward |-> m.forward, backward |-> m.backward]

\* OneToOne.inverse
inverse(m) == [forward |-> m.backward, backward |-> m.forward]

\* The loop of OneToOne.__mul__ over other.backward.iteritems(): sources holds
\* the keys of other.backward still to visit.  self.forward[mid] of an absent
\* mid raises KeyError: the result then has raised = TRUE.
RECURSIVE mul_loop(_, _, _, _)
mul_loop(self, other, sources, product) ==
  IF sources = << >> THEN [raised |-> FALSE, m |-> product]
  ELSE LET source == sources[1]
           mid == other.backward[source]
       IN  IF mid \notin DOMAIN self.forward
           THEN [raised |-> TRUE, m |-> product]
           ELSE LET destination == self.forward[mid]
                IN  mul_loop(self, other, Tail(sources),
                      [forward  |-> Put(product.forward, source, destination),
                       backward |-> Put(product.backward, destination, source)])

\* OneToOne.__mul__: self * other
mul(self, other) ==
  mul_loop(self, other, SortedSeq(DOMAIN other.backward), OneToOne)

\* -------------------------------------------------------------- Permutation
\* Permutation.get_closed: every source is also a destination
get_closed(m) == \A source \in DOMAIN m.forward : source \in DOMAIN m.backward

\* The loop of Permutation.get_closed_cycles.  current_source is kept
\* shifted by one, 0 standing for None.  list.remove of an absent element
\* raises ValueError: the result then has raised = TRUE.
RECURSIVE closed_cycles_loop(_, _, _, _, _)
closed_cycles_loop(m, sources, current_source, current_cycle, closed_cycles) ==
  IF Len(sources) = 0 THEN [raised |-> FALSE, cycles |-> closed_cycles]
  ELSE
    LET cs == IF current_source = 0 THEN sources[1] ELSE current_source - 1
        cc == (IF current_source = 0 THEN << >> ELSE current_cycle) \o <<cs>>
    IN  IF ~ InSeq(cs, sources) THEN [raised |-> TRUE, cycles |-> << >>]
        ELSE
          LET rest == SelectSeq(sources, LAMBDA x : x # cs)
              nxt  == get_destination(m, cs)
          IN  IF nxt = cc[1]
              THEN closed_cycles_loop(m, rest, 0, cc,
                     IF Len(cc) > 1 THEN Append(closed_cycles, cc)
                                    ELSE closed_cycles)
              ELSE closed_cycles_loop(m, rest, nxt + 1, cc, closed_cycles)

\* Permutation.get_closed_cycles
get_closed_cycles(m) ==
  closed_cycles_loop(m, SortedSeq(DOMAIN m.forward), 0, << >>, << >>)

\* ------------------------------------------------------------------- state
VARIABLES
  pc,               \* where the program is: "new", "symmetries", "ready",
                    \* "search", "done", "called", "returned", "shared",
                    \* "running", "searching", "finished", "raised",
                    \* "bijections"
  pairs,            \* Graph.pairs
  neighbours,       \* Graph.neighbours
  initiator,        \* Graph.initiator
  symmetries,       \* Graph.symmetries: cycles -> permutation
  cycles,           \* Graph.cycles
  initiator_cycle,  \* Graph.initiator_cycle
  seeds,            \* the find_symmetries calls init_symmetries has yet to make
  pending,          \* symmetries of the running yield_matches call that the
                    \* loop of find_symmetries has yet to take
  thing_neighbours, \* the target of the running search
  things,           \* the things yield_matching_subgraphs has yet to try
  found,            \* what yield_matches gave yield_matching_subgraphs so far
  yielded,          \* what yield_matching_subgraphs yielded so far
  call,             \* the arguments of the last direct yield_matches call
  objs,             \* bijections alone: two OneToOne objects of a caller
  ret,              \* bijections alone: what the last add_relation returned
  raised,           \* the exception that ended the program, "" if none
  operands,         \* the operands of the last observed call, as they were
                    \* when the call began
  result,           \* what the last observed call returned, << >> for None
  searches,         \* the generators of concurrent searches of one graph
  frames,           \* the yield_matches calls in progress, the innermost last
  heap              \* the OneToOne objects these calls work on, by identity

vars == <<pc, pairs, neighbours, initiator, symmetries, cycles,
          initiator_cycle, seeds, pending, thing_neighbours, things, found,
          yielded, call, objs, ret, raised, operands, result, searches,
          frames, heap>>

bijVars == <<objs, ret>>

callVars == <<operands, result, searches>>

frameVars == <<frames, heap>>

graphVars == <<pc, pairs, neighbours, initiator, symmetries, cycles,
               initiator_cycle, seeds, pending, thing_neighbours, things,
               found, yielded, call, raised>>

\* ------------------------------------------------------------ all_relations
\* worth_trying of yield_matches, for the match of that call
worth_trying(match, tn, allow_more, relation) ==
  IF in_sources(match, relation[1])
  THEN get_destination(match, relation[1]) = relation[2]
  ELSE IF in_destinations(match, relation[2]) THEN FALSE
  ELSE IF allow_more /\ Len(neighbours[relation[1]]) > Len(tn[relation[2]])
  THEN FALSE
  ELSE IF ~ allow_more /\ Len(neighbours[relation[1]]) # Len(tn[relation[2]])
  THEN FALSE
  ELSE TRUE

\* all_relations(list1, list2, worth_trying), worth_trying being the one of
\* the yield_matches call with this match, target and allow_more
RECURSIVE all_relations(_, _, _, _, _)
all_relations(list1, list2, match, tn, allow_more) ==
  IF Len(list1) = 0 \/ Len(list2) = 0 THEN << << >> >>
  ELSE FlatMap(LAMBDA index2 :
         LET pair == <<list1[1], list2[index2]>>
         IN  IF worth_trying(match, tn, allow_more, pair)
             THEN PrependAll(pair,
                    all_relations(Tail(list1), RemoveAt(list2, index2),
                                  match, tn, allow_more))
             ELSE << >>,
         1, Len(list2))

\* Graph.len_cycle_prefix
RECURSIVE len_cycle_prefix(_)
len_cycle_prefix(sequence) ==
  IF ~ InSeq(sequence, cycles) /\ Len(sequence) > 0
  THEN len_cycle_prefix(SubSeq(sequence, 1, Len(sequence) - 1))
  ELSE Len(sequence)

\* relations_without_symmetric_images of yield_matches
RECURSIVE relations_without_symmetric_images(_, _, _, _, _, _)
relations_without_symmetric_images(list1, list2, match, tn, allow_more, n0) ==
  IF Len(list1) = 0 \/ Len(list2) = 0 THEN << << >> >>
  ELSE
    LET num_ordered == IF n0 = 0 THEN len_cycle_prefix(list1) ELSE n0
        \* range(n) is empty for a negative n
        length == IF num_ordered > 0
                  THEN (IF Len(list2) + 1 > Len(list1)
                        THEN Len(list2) + 1 - Len(list1) ELSE 0)
                  ELSE Len(list2)
        new_num_ordered == IF num_ordered > 0 THEN num_ordered - 1 ELSE 0
    IN  FlatMap(LAMBDA index2 :
          LET pair == <<list1[1], list2[index2]>>
          IN  IF worth_trying(match, tn, allow_more, pair)
              THEN LET sublist2 == IF num_ordered = 0
                                   THEN RemoveAt(list2, index2)
                                   ELSE After(list2, index2)
                   IN  PrependAll(pair,
                         relations_without_symmetric_images(
                           Tail(list1), sublist2, match, tn, allow_more,
                           new_num_ordered))
              ELSE << >>,
          1, length)

\* ------------------------------------------------------------ yield_matches
\* The matches Graph.yield_matches yields, in order.  through_set is the loop
\* over one relation set, extend_formers its inner loop over former_matches.
RECURSIVE yield_matches(_, _, _, _, _, _)
RECURSIVE through_set(_, _, _, _, _)
RECURSIVE extend_formers(_, _, _, _, _, _)

extend_formers(former_matches, node, thing, tn, allow_more, no_duplicates) ==
  FlatMap(LAMBDA i :
    LET former_match == former_matches[i]
    IN  IF in_sources(former_match, node)
           /\ get_destination(former_match, node) = thing
        THEN <<former_match>>
        ELSE yield_matches(node, thing, tn, former_match, allow_more,
                           no_duplicates),
    1, Len(former_matches))

through_set(relation_set, former_matches, tn, allow_more, no_duplicates) ==
  IF relation_set = << >> THEN former_matches
  ELSE through_set(Tail(relation_set),
         extend_formers(former_matches, relation_set[1][1], relation_set[1][2],
                        tn, allow_more, no_duplicates),
         tn, allow_more, no_duplicates)

yield_matches(node, thing, tn, match_in, allow_more, no_duplicates) ==
  IF allow_more /\ Len(neighbours[node]) > Len(tn[thing]) THEN << >>
  ELSE IF ~ allow_more /\ Len(neighbours[node]) # Len(tn[thing]) THEN << >>
  ELSE
    LET added == add_relation(match_in, node, thing)
        match == added.m
    IN  IF ~ added.ok THEN << >>
        ELSE IF len(match) = Cardinality(DOMAIN neighbours) THEN <<match>>
        ELSE
          LET relations ==
                IF no_duplicates
                THEN relations_without_symmetric_images(
                       neighbours[node], tn[thing], match, tn, allow_more, 0)
                ELSE all_relations(neighbours[node], tn[thing], match, tn,
                                   allow_more)
          IN  FlatMap(LAMBDA r :
                IF Len(relations[r]) = 0 THEN << >>
                ELSE through_set(relations[r], <<copy(match)>>, tn, allow_more,
                                 no_duplicates),
                1, Len(relations))

\* ------------------------------------------------------------ construction
\* The edge lists of at most e pairs over the nodes 0 .. n-1.  Only the first
\* pair is taken in both directions: the direction of a later pair changes
\* nothing (init_neighbours adds both directions, and only pairs[0][0] is
\* read besides).  The empty list is included.
Lists(n, e) ==
  LET directed == {p \in (0..(n - 1)) \X (0..(n - 1)) : p[1] # p[2]}
      upward   == {p \in directed : p[1] < p[2]}
  IN  UNION {{l \in [1..k -> directed] : \A i \in 2..k : l[i] \in upward}
             : k \in 0..e}

EdgeLists == Lists(MaxNode, MaxEdges)

\* Graph.init_neighbours
RECURSIVE init_neighbours(_)
init_neighbours(ps) ==
  IF ps = << >> THEN EmptyMap
  ELSE LET before == init_neighbours(SubSeq(ps, 1, Len(ps) - 1))
           pair == ps[Len(ps)]
           add(nb, first, second) ==
             IF first \in DOMAIN nb
             THEN [nb EXCEPT ![first] = Append(@, second)]
             ELSE Put(nb, first, <<second>>)
       IN  add(add(before, pair[1], pair[2]), pair[2], pair[1])

\* the (source, destination) arguments of the find_symmetries calls of
\* init_symmetries, in the order of the calls
\* a slip: the first call, find_symmetries(initiator, initiator), is left out
find_symmetries_calls_without_unity(nb, init) ==
  LET keys == SortedSeq(DOMAIN nb)
      row(i) == FlatMap(LAMBDA j : IF keys[i] >= keys[j] THEN << >>
                                   ELSE << <<keys[i], keys[j]>> >>,
                        1, Len(keys))
  IN  FlatMap(row, 1, Len(keys))

find_symmetries_calls(nb, init) ==
  LET keys == SortedSeq(DOMAIN nb)
      row(i) == FlatMap(LAMBDA j : IF keys[i] >= keys[j] THEN << >>
                                   ELSE << <<keys[i], keys[j]>> >>,
                        1, Len(keys))
  IN  <<<<init, init>>>> \o FlatMap(row, 1, Len(keys))

\* add_symmetry of init_symmetries, on the pair (symmetries, cycles): the
\* returned flag and the pair afterwards; raised when get_closed_cycles raises
RECURSIVE add_cycles(_, _)
add_cycles(cs, new) ==
  IF new = << >> THEN cs
  ELSE add_cycles(IF InSeq(new[1], cs) THEN cs ELSE Append(cs, new[1]),
                  Tail(new))

add_symmetry(state, symmetry) ==
  LET got == get_closed_cycles(symmetry)
  IN  IF got.raised
      THEN [raised |-> TRUE, ok |-> FALSE, symmetries |-> state.symmetries,
            cycles |-> state.cycles]
      ELSE IF got.cycles \notin DOMAIN state.symmetries
      THEN [raised |-> FALSE, ok |-> TRUE,
            symmetries |-> Put(state.symmetries, got.cycles, symmetry),
            cycles |-> add_cycles(state.cycles, got.cycles)]
      ELSE [raised |-> FALSE, ok |-> FALSE, symmetries |-> state.symmetries,
            cycles |-> state.cycles]

\* a slip: the inverse of a new symmetry is not added
take_symmetry_without_inverse(state, symmetry) == add_symmetry(state, symmetry)

\* the body of the loop of find_symmetries for one yielded symmetry
take_symmetry(state, symmetry) ==
  LET first == add_symmetry(state, symmetry)
  IN  IF first.ok THEN add_symmetry(first, inverse(symmetry)) ELSE first

\* Graph.init_initiator_cycle
RECURSIVE longest_initiator_cycle(_, _, _)
longest_initiator_cycle(cs, init, best) ==
  IF cs = << >> THEN best
  ELSE longest_initiator_cycle(Tail(cs), init,
         IF InSeq(init, cs[1]) /\ Len(cs[1]) > Len(best) THEN cs[1] ELSE best)

init_initiator_cycle(cs, init) == longest_initiator_cycle(cs, init, <<init>>)

Init ==
  /\ pc = "new"
  /\ pairs \in EdgeLists
  /\ neighbours = EmptyMap
  /\ initiator = 0
  /\ symmetries = EmptyMap
  /\ cycles = << >>
  /\ initiator_cycle = << >>
  /\ seeds = << >>
  /\ pending = << >>
  /\ thing_neighbours = EmptyMap
  /\ things = << >>
  /\ found = << >>
  /\ yielded = << >>
  /\ call = << >>
  /\ raised = ""
  /\ operands = << >>
  /\ result = << >>
  /\ searches = << >>
  /\ frames = << >>
  /\ heap = << >>
  /\ objs = <<OneToOne, OneToOne>>
  /\ ret = TRUE

\* a slip: an empty edge list is accepted and gives an empty graph
GraphInit_accepting_no_pairs ==
  /\ pc = "new"
  /\ neighbours' = init_neighbours(pairs)
  /\ IF pairs = << >>
     THEN /\ pc' = "ready"
          /\ UNCHANGED raised
          /\ UNCHANGED <<initiator, seeds>>
     ELSE /\ pc' = "symmetries"
          /\ initiator' = pairs[1][1]
          /\ seeds' = find_symmetries_calls(neighbours', pairs[1][1])
          /\ UNCHANGED raised
  /\ UNCHANGED <<pairs, symmetries, cycles, initiator_cycle, pending,
                 thing_neighbours, things, found, yielded, call>>
  /\ UNCHANGED <<bijVars, callVars, frameVars>>

\* Graph.__init__ up to the first call of find_symmetries; pairs[0][0] of an
\* empty list raises IndexError
GraphInit ==
  /\ pc = "new"
  /\ neighbours' = init_neighbours(pairs)
  /\ IF pairs = << >>
     THEN /\ pc' = "raised"
          /\ raised' = "IndexError"
          /\ UNCHANGED <<initiator, seeds>>
     ELSE /\ pc' = "symmetries"
          /\ initiator' = pairs[1][1]
          /\ seeds' = find_symmetries_calls(neighbours', pairs[1][1])
          /\ UNCHANGED raised
  /\ UNCHANGED <<pairs, symmetries, cycles, initiator_cycle, pending,
                 thing_neighbours, things, found, yielded, call>>
  /\ UNCHANGED <<bijVars, callVars, frameVars>>

\* find_symmetries(source, destination): the call of yield_matches
FindSymmetries ==
  /\ pc = "symmetries"
  /\ pending = << >>
  /\ seeds # << >>
  /\ pending' = yield_matches(seeds[1][1], seeds[1][2], neighbours, OneToOne,
                              FALSE, FALSE)
  /\ seeds' = Tail(seeds)
  /\ UNCHANGED <<pc, pairs, neighbours, initiator, symmetries, cycles,
                 initiator_cycle, thing_neighbours, things, found, yielded,
                 call, raised>>
  /\ UNCHANGED <<bijVars, callVars, frameVars>>

\* find_symmetries: one turn of its loop over the yielded symmetries
TakeSymmetry ==
  /\ pc = "symmetries"
  /\ pending # << >>
  /\ LET after == take_symmetry([symmetries |-> symmetries, cycles |-> cycles],
                                Head(pending))
     IN  IF after.raised
         THEN /\ pc' = "raised"
              /\ raised' = "ValueError"
              /\ UNCHANGED <<symmetries, cycles, pending>>
         ELSE /\ symmetries' = after.symmetries
              /\ cycles' = after.cycles
              /\ pending' = Tail(pending)
              /\ UNCHANGED <<pc, raised>>
  /\ UNCHANGED <<pairs, neighbours, initiator, initiator_cycle, seeds,
                 thing_neighbours, things, found, yielded, call>>
  /\ UNCHANGED <<bijVars, callVars, frameVars>>

\* Graph.__init__: init_initiator_cycle, after which the graph is built
InitInitiatorCycle ==
  /\ pc = "symmetries"
  /\ pending = << >>
  /\ seeds = << >>
  /\ initiator_cycle' = init_initiator_cycle(cycles, initiator)
  /\ pc' = "ready"
  /\ UNCHANGED <<pairs, neighbours, initiator, symmetries, cycles, seeds,
                 pending, thing_neighbours, things, found, yielded, call,
                 raised>>
  /\ UNCHANGED <<bijVars, callVars, frameVars>>

Next == GraphInit \/ FindSymmetries \/ TakeSymmetry \/ InitInitiatorCycle

Spec == Init /\ [][Next]_vars

\* ------------------------------------------------------------------ search
\* The patterns of the searches.  The code compares pattern nodes with each
\* other only, and only by their order, so the nodes of a pattern are taken
\* to be 0 .. k-1 for some k.
SearchLists ==
  {l \in Lists(MaxSearchNode, MaxSearchEdges) :
     LET used == UNION {{l[i][1], l[i][2]} : i \in DOMAIN l}
     IN  used = 0..(Cardinality(used) - 1)}

\* the targets: the neighbour dictionaries of the graphs over the things
Targets == {init_neighbours(l) : l \in Lists(MaxThing, MaxThingEdges)}

\* Graph.lowest_initiator; get_destination of an absent node raises KeyError
lowest_initiator_raises(match) ==
  \/ ~ in_sources(match, initiator)
  \/ \E i \in DOMAIN initiator_cycle : ~ in_sources(match, initiator_cycle[i])

\* a lowest_initiator that keeps the match with the highest image instead
highest_initiator(match) ==
  LET images == {get_destination(match, initiator_cycle[i])
                 : i \in DOMAIN initiator_cycle}
  IN  get_destination(match, initiator)
        = CHOOSE x \in images : \A y \in images : x >= y

lowest_initiator(match) ==
  LET images == {get_destination(match, initiator_cycle[i])
                 : i \in DOMAIN initiator_cycle}
  IN  get_destination(match, initiator)
        = CHOOSE x \in images : \A y \in images : x <= y

InitSearch ==
  /\ pc = "new"
  /\ pairs \in SearchLists
  /\ neighbours = EmptyMap
  /\ initiator = 0
  /\ symmetries = EmptyMap
  /\ cycles = << >>
  /\ initiator_cycle = << >>
  /\ seeds = << >>
  /\ pending = << >>
  /\ thing_neighbours = EmptyMap
  /\ things = << >>
  /\ found = << >>
  /\ yielded = << >>
  /\ call = << >>
  /\ raised = ""
  /\ operands = << >>
  /\ result = << >>
  /\ searches = << >>
  /\ frames = << >>
  /\ heap = << >>
  /\ objs = <<OneToOne, OneToOne>>
  /\ ret = TRUE

\* Graph.yield_matching_subgraphs: the call, up to the first thing
YieldMatchingSubgraphs ==
  /\ pc = "ready"
  /\ \E tn \in Targets :
       /\ thing_neighbours' = tn
       /\ things' = SortedSeq(DOMAIN tn)
  /\ found' = << >>
  /\ yielded' = << >>
  /\ pc' = "search"
  /\ UNCHANGED <<pairs, neighbours, initiator, symmetries, cycles,
                 initiator_cycle, seeds, pending, call, raised>>
  /\ UNCHANGED <<bijVars, callVars, frameVars>>

\* Graph.yield_matching_subgraphs: one turn of the loop over the things, with
\* its whole inner loop over the matches of yield_matches
NextThing ==
  /\ pc = "search"
  /\ things # << >>
  /\ LET matches == yield_matches(initiator, Head(things), thing_neighbours,
                                  OneToOne, TRUE, TRUE)
     IN  IF \E i \in DOMAIN matches : lowest_initiator_raises(matches[i])
         THEN /\ pc' = "raised"
              /\ raised' = "KeyError"
              /\ UNCHANGED <<things, found, yielded>>
         ELSE /\ found' = found \o matches
              /\ yielded' = yielded \o SelectSeq(matches, lowest_initiator)
              /\ things' = Tail(things)
              /\ UNCHANGED <<pc, raised>>
  /\ UNCHANGED <<pairs, neighbours, initiator, symmetries, cycles,
                 initiator_cycle, seeds, pending, thing_neighbours, call>>
  /\ UNCHANGED <<bijVars, callVars, frameVars>>

\* Graph.yield_matching_subgraphs: the loop over the things is over
StopIteration ==
  /\ pc = "search"
  /\ things = << >>
  /\ pc' = "done"
  /\ UNCHANGED <<pairs, neighbours, initiator, symmetries, cycles,
                 initiator_cycle, seeds, pending, thing_neighbours, things,
                 found, yielded, call, raised>>
  /\ UNCHANGED <<bijVars, callVars, frameVars>>

\* a caller's own Graph.yield_matches(node, thing, thing_neighbours,
\* OneToOne(), allow_more, no_duplicates), read to its end
YieldMatches ==
  /\ pc = "ready"
  /\ \E tn \in Targets, allow_more \in BOOLEAN, no_duplicates \in BOOLEAN :
       \E node \in DOMAIN neighbours, thing \in DOMAIN tn :
         /\ thing_neighbours' = tn
         /\ call' = <<node, thing, allow_more, no_duplicates>>
         /\ found' = yield_matches(node, thing, tn, OneToOne, allow_more,
                                   no_duplicates)
  /\ pc' = "called"
  /\ UNCHANGED <<pairs, neighbours, initiator, symmetries, cycles,
                 initiator_cycle, seeds, pending, things, yielded, raised>>
  /\ UNCHANGED <<bijVars, callVars, frameVars>>

NextSearch ==
  \/ Next
  \/ YieldMatchingSubgraphs
  \/ NextThing
  \/ StopIteration

SpecSearch == InitSearch /\ [][NextSearch]_vars

NextCall == Next \/ YieldMatches

SpecCall == InitSearch /\ [][NextCall]_vars

\* -------------------------------------------------------- bijections alone
Labels == 0..(MaxLabel - 1)

InitBij ==
  /\ pc = "bijections"
  /\ pairs = << >>
  /\ neighbours = EmptyMap
  /\ initiator = 0
  /\ symmetries = EmptyMap
  /\ cycles = << >>
  /\ initiator_cycle = << >>
  /\ seeds = << >>
  /\ pending = << >>
  /\ thing_neighbours = EmptyMap
  /\ things = << >>
  /\ found = << >>
  /\ yielded = << >>
  /\ call = << >>
  /\ raised = ""
  /\ operands = << >>
  /\ result = << >>
  /\ searches = << >>
  /\ frames = << >>
  /\ heap = << >>
  /\ objs = <<OneToOne, OneToOne>>
  /\ ret = TRUE

\* objs[i].add_relation(source, destination)
AddRelation ==
  /\ pc = "bijections"
  /\ \E i \in DOMAIN objs, source \in Labels, destination \in Labels :
       LET done == add_relation(objs[i], source, destination)
       IN  /\ objs' = [objs EXCEPT ![i] = done.m]
           /\ ret' = done.ok
  /\ UNCHANGED <<graphVars, callVars, frameVars>>

\* objs[j] = copy.copy(objs[i])
Copy ==
  /\ pc = "bijections"
  /\ \E i \in DOMAIN objs, j \in DOMAIN objs :
       /\ i # j
       /\ objs' = [objs EXCEPT ![j] = copy(objs[i])]
  /\ UNCHANGED <<graphVars, callVars, frameVars, ret>>

\* objs[j] = objs[i].inverse()
Inverse ==
  /\ pc = "bijections"
  /\ \E i \in DOMAIN objs, j \in DOMAIN objs :
       objs' = [objs EXCEPT ![j] = inverse(objs[i])]
  /\ UNCHANGED <<graphVars, callVars, frameVars, ret>>

NextBij == AddRelation \/ Copy \/ Inverse

SpecBij == InitBij /\ [][NextBij]_vars

\* ------------------------------------------------- bijections, observed
\* The operations of OneToOne as a caller observes one call: the operands as
\* they were when the call began, the arguments, and what came back.

\* objs[i].add_relation(source, destination), observed
AddRelationObserved ==
  /\ pc = "bijections"
  /\ \E i \in DOMAIN objs, source \in Labels, destination \in Labels :
       LET done == add_relation(objs[i], source, destination)
       IN  /\ objs' = [objs EXCEPT ![i] = done.m]
           /\ ret' = done.ok
           /\ call' = <<i, source, destination>>
  /\ operands' = objs
  /\ pc' = "returned"
  /\ UNCHANGED <<pairs, neighbours, initiator, symmetries, cycles,
                 initiator_cycle, seeds, pending, thing_neighbours, things,
                 found, yielded, raised, result, searches,
                 frameVars>>

\* objs[i] * objs[j], observed
Mul ==
  /\ pc = "bijections"
  /\ \E i \in DOMAIN objs, j \in DOMAIN objs :
       LET product == mul(objs[i], objs[j])
       IN  /\ call' = <<i, j>>
           /\ IF product.raised
              THEN /\ raised' = "KeyError"
                   /\ result' = << >>
              ELSE /\ raised' = ""
                   /\ result' = <<product.m>>
  /\ operands' = objs
  /\ pc' = "returned"
  /\ UNCHANGED <<pairs, neighbours, initiator, symmetries, cycles,
                 initiator_cycle, seeds, pending, thing_neighbours, things,
                 found, yielded, objs, ret, searches,
                 frameVars>>

NextOps == NextBij \/ AddRelationObserved \/ Mul

SpecOps == InitBij /\ [][NextOps]_vars

\* ------------------------------------------------ symmetries, composed
\* the identity permutation of a set of nodes
unity(nodes) ==
  [forward |-> [n \in nodes |-> n], backward |-> [n \in nodes |-> n]]

\* symmetry * unity ("after") or unity * symmetry ("before"), observed, for
\* a symmetry of the built graph and the identity on its nodes
ComposeUnity ==
  /\ pc = "ready"
  /\ \E k \in DOMAIN symmetries, side \in {"after", "before"} :
       LET self == IF side = "after" THEN symmetries[k]
                   ELSE unity(DOMAIN neighbours)
           other == IF side = "after" THEN unity(DOMAIN neighbours)
                    ELSE symmetries[k]
           product == mul(self, other)
       IN  /\ call' = <<side>>
           /\ operands' = <<self, other>>
           /\ IF product.raised
              THEN /\ raised' = "KeyError"
                   /\ result' = << >>
              ELSE /\ raised' = ""
                   /\ result' = <<product.m>>
  /\ pc' = "returned"
  /\ UNCHANGED <<pairs, neighbours, initiator, symmetries, cycles,
                 initiator_cycle, seeds, pending, thing_neighbours, things,
                 found, yielded, objs, ret, searches,
                 frameVars>>

NextCompose == Next \/ ComposeUnity

SpecCompose == Init /\ [][NextCompose]_vars

\* ----------------------------------------------------------- match filters
\* A filter is a record: kind names the class, thing_criteria maps some nodes
\* to the set of things their criterion function accepts, relation_criteria
\* maps some edges (sets of two nodes) to the set of bonds their criterion
\* function accepts, bonds maps pairs of things to bonds.  Criterion
\* functions are taken to be pure.

\* check_thing of MatchFilterParameterized and of MatchFilterMolecular.
\* MatchFilterParameterized calls the criterion and drops what it returns:
\* the method returns None, which parse takes for false.
check_thing(filter, node, thing) ==
  IF node \in DOMAIN filter.thing_criteria
  THEN IF filter.kind = "MatchFilterParameterized"
       THEN FALSE
       ELSE thing \in filter.thing_criteria[node]
  ELSE TRUE

\* check_relation of MatchFilterParameterized and of MatchFilterMolecular:
\* "True", "False" or the exception raised.  MatchFilterParameterized
\* indexes the frozenset of the two things, which raises TypeError;
\* MatchFilterMolecular looks it up in bonds.
check_relation(filter, nodes, thing_pair) ==
  IF nodes \in DOMAIN filter.relation_criteria
  THEN IF filter.kind = "MatchFilterParameterized" THEN "TypeError"
       ELSE IF thing_pair \notin DOMAIN filter.bonds THEN "KeyError"
       ELSE IF filter.bonds[thing_pair] \in filter.relation_criteria[nodes]
       THEN "True"
       ELSE "False"
  ELSE "True"

\* check_match of MatchFilter.parse, inner loop over the neighbours of node
RECURSIVE check_neighbours(_, _, _, _)
check_neighbours(filter, transformed, node, rest) ==
  IF rest = << >> THEN "True"
  ELSE IF ~ in_sources(transformed, rest[1]) THEN "KeyError"
  ELSE LET checked == check_relation(filter, {node, rest[1]},
                        {get_destination(transformed, node),
                         get_destination(transformed, rest[1])})
       IN  IF checked = "True"
           THEN check_neighbours(filter, transformed, node, Tail(rest))
           ELSE checked

\* check_match of MatchFilter.parse, outer loop over the nodes
RECURSIVE check_nodes(_, _, _)
check_nodes(filter, transformed, nodes) ==
  IF nodes = << >> THEN "True"
  ELSE LET node == nodes[1]
       IN  IF ~ in_sources(transformed, node) THEN "KeyError"
           ELSE IF ~ check_thing(filter, node,
                                 get_destination(transformed, node))
           THEN "False"
           ELSE LET checked == check_neighbours(filter, transformed, node,
                                                neighbours[node])
                IN  IF checked = "True"
                    THEN check_nodes(filter, transformed, Tail(nodes))
                    ELSE checked

\* check_match of MatchFilter.parse: "True", "False" or the exception raised
check_match(filter, transformed) ==
  check_nodes(filter, transformed, SortedSeq(DOMAIN neighbours))

\* The loop of MatchFilter.parse over symmetries.itervalues(); order lists
\* the keys of symmetries in the order of the iteration.
RECURSIVE parse_loop(_, _, _)
parse_loop(filter, match, order) ==
  IF order = << >> THEN [raised |-> "", result |-> << >>]
  ELSE LET transformed_match == mul(match, symmetries[order[1]])
       IN  IF transformed_match.raised
           THEN [raised |-> "KeyError", result |-> << >>]
           ELSE LET checked == check_match(filter, transformed_match.m)
                IN  IF checked = "True"
                    THEN [raised |-> "", result |-> <<transformed_match.m>>]
                    ELSE IF checked = "False"
                    THEN parse_loop(filter, match, Tail(order))
                    ELSE [raised |-> checked, result |-> << >>]

\* MatchFilter.parse
parse(filter, match, order) == parse_loop(filter, match, order)

\* the patterns of the filters
ParseLists ==
  {l \in Lists(MaxParseNode, MaxParseEdges) :
     LET used == UNION {{l[i][1], l[i][2]} : i \in DOMAIN l}
     IN  used = 0..(Cardinality(used) - 1)}

\* The orders in which symmetries.itervalues() may visit the dictionary: the
\* keys are tuples, their order is that of their hashes.  Every key comes
\* first in one of the orders.
RECURSIVE KeySeq(_)
KeySeq(S) ==
  IF S = {} THEN << >>
  ELSE LET k == CHOOSE k \in S : TRUE
       IN  <<k>> \o KeySeq(S \ {k})

IterationOrders ==
  LET keys == KeySeq(DOMAIN symmetries)
  IN  {SubSeq(keys, r, Len(keys)) \o SubSeq(keys, 1, r - 1)
       : r \in 1..Len(keys)}

\* the matches given to parse: node n on thing n + shift
ParseMatches ==
  {[forward  |-> [n \in DOMAIN neighbours |-> n + shift],
    backward |-> [t \in {n + shift : n \in DOMAIN neighbours} |-> t - shift]]
   : shift \in 0..MaxShift}

\* what a criterion function may accept out of the set all
AcceptSets(all) ==
  {all \ rejected : rejected \in {r \in SUBSET all :
                                     Cardinality(r) <= MaxRejected}}

\* the filters for one match: criteria on things, or a criterion on one edge
Filters(match) ==
  LET edges  == UNION {{{n, neighbours[n][i]} : i \in DOMAIN neighbours[n]}
                       : n \in DOMAIN neighbours}
      nodes  == DOMAIN neighbours
      images == {match.forward[n] : n \in nodes}
      bonds  == {{match.forward[n] : n \in e} : e \in edges}
      thing_criteria == UNION {[D -> AcceptSets(images)] : D \in SUBSET nodes}
      relation_criteria ==
        UNION {[D -> AcceptSets(bonds)]
               : D \in {D \in SUBSET edges : Cardinality(D) <= 1}}
      both == {[thing_criteria |-> c, relation_criteria |-> EmptyMap]
               : c \in thing_criteria}
                \cup {[thing_criteria |-> EmptyMap, relation_criteria |-> c]
                      : c \in relation_criteria}
  IN  {[kind |-> kind, thing_criteria |-> c.thing_criteria,
        relation_criteria |-> c.relation_criteria,
        bonds |-> [b \in bonds |-> b]]
       : kind \in {"MatchFilterParameterized", "MatchFilterMolecular"},
         c \in both}

\* filter.parse(match), observed
Parse ==
  /\ pc = "ready"
  /\ \E match \in ParseMatches :
       \E filter \in Filters(match), order \in IterationOrders :
         LET done == parse(filter, match, order)
         IN  /\ call' = <<filter, order>>
             /\ operands' = <<match>>
             /\ result' = done.result
             /\ raised' = done.raised
  /\ pc' = "returned"
  /\ UNCHANGED <<pairs, neighbours, initiator, symmetries, cycles,
                 initiator_cycle, seeds, pending, thing_neighbours, things,
                 found, yielded, objs, ret, searches,
                 frameVars>>

InitParse ==
  /\ pc = "new"
  /\ pairs \in ParseLists
  /\ neighbours = EmptyMap
  /\ initiator = 0
  /\ symmetries = EmptyMap
  /\ cycles = << >>
  /\ initiator_cycle = << >>
  /\ seeds = << >>
  /\ pending = << >>
  /\ thing_neighbours = EmptyMap
  /\ things = << >>
  /\ found = << >>
  /\ yielded = << >>
  /\ call = << >>
  /\ raised = ""
  /\ operands = << >>
  /\ result = << >>
  /\ searches = << >>
  /\ frames = << >>
  /\ heap = << >>
  /\ objs = <<OneToOne, OneToOne>>
  /\ ret = TRUE

NextParse == Next \/ Parse

SpecParse == InitParse /\ [][NextParse]_vars

\* ------------------------------------------- searches, sharing one graph
\* The generator of one Graph.yield_matching_subgraphs(thing_neighbours)
\* call: the locals of its frame and of the frame of the yield_matches call
\* it is reading.
\*   tn       thing_neighbours
\*   things   the things the loop of yield_matching_subgraphs has yet to try
\*   match    match of the running yield_matches call, after its add_relation
\*   sets     the relation sets the loop of that call has yet to go through
\*   buffer   new_matches of the current relation set, yet to be yielded
\*   yielded  what the generator has yielded to its consumer so far
\*   state    "running", "done" (StopIteration) or "raised" (KeyError)

\* one bijection for the two searches: search k hands to yield_matches the
\* bijection the other search is working on
match_of_other_search(ss, k) == ss[3 - k].match

\* the bijection search k hands to yield_matches: OneToOne()
fresh_match(ss, k) == OneToOne

new_search(tn) ==
  [tn |-> tn, things |-> SortedSeq(DOMAIN tn), match |-> OneToOne,
   sets |-> << >>, buffer |-> << >>, yielded |-> << >>, state |-> "running"]

\* yield_matches(self.initiator, thing, thing_neighbours, OneToOne()) up to
\* its loop over the relation sets, for the next thing of search k
begin_call(ss, k) ==
  LET s == ss[k]
      thing == Head(s.things)
      rest == [s EXCEPT !.things = Tail(s.things)]
      added == add_relation(fresh_match(ss, k), initiator, thing)
  IN  IF Len(neighbours[initiator]) > Len(s.tn[thing]) THEN rest
      ELSE IF ~ added.ok THEN rest
      ELSE IF len(added.m) = Cardinality(DOMAIN neighbours)
      THEN [rest EXCEPT !.match = added.m, !.buffer = <<added.m>>]
      ELSE [rest EXCEPT !.match = added.m,
                        !.sets = relations_without_symmetric_images(
                                   neighbours[initiator], s.tn[thing], added.m,
                                   s.tn, TRUE, 0)]

\* one turn of the loop of yield_matches over the relation sets, up to its
\* first yield
next_set(s) ==
  LET relation_set == Head(s.sets)
  IN  [s EXCEPT !.sets = Tail(s.sets),
                !.buffer = IF Len(relation_set) = 0 THEN << >>
                           ELSE through_set(relation_set, <<copy(s.match)>>,
                                            s.tn, TRUE, TRUE)]

\* yield_matches yields its next match, and yield_matching_subgraphs yields
\* it in turn if it passes lowest_initiator
next_match(s) ==
  LET match == Head(s.buffer)
  IN  IF lowest_initiator_raises(match) THEN [s EXCEPT !.state = "raised"]
      ELSE [s EXCEPT !.buffer = Tail(s.buffer),
                     !.yielded = IF lowest_initiator(match)
                                 THEN Append(s.yielded, match)
                                 ELSE s.yielded]

\* search k runs on from where it stood
resume(ss, k) ==
  LET s == ss[k]
  IN  IF s.buffer # << >> THEN next_match(s)
      ELSE IF s.sets # << >> THEN next_set(s)
      ELSE IF s.things # << >> THEN begin_call(ss, k)
      ELSE [s EXCEPT !.state = "done"]

\* two consumers call graph.yield_matching_subgraphs, each with a target
StartSearches ==
  /\ pc = "ready"
  /\ \E tn1 \in Targets, tn2 \in Targets :
       searches' = <<new_search(tn1), new_search(tn2)>>
  /\ pc' = "shared"
  /\ UNCHANGED <<pairs, neighbours, initiator, symmetries, cycles,
                 initiator_cycle, seeds, pending, thing_neighbours, things,
                 found, yielded, call, raised>>
  /\ UNCHANGED <<bijVars, operands, result, frameVars>>

\* what a step of search k does to the searches
AdvanceSearch(k) ==
  /\ pc = "shared"
  /\ k \in DOMAIN searches
  /\ searches[k].state = "running"
  /\ searches' = [searches EXCEPT ![k] = resume(searches, k)]
  /\ UNCHANGED <<pc, pairs, seeds, pending, thing_neighbours, things, found,
                 yielded, call, raised>>
  /\ UNCHANGED <<bijVars, operands, result, frameVars>>

\* a step of search k that sets up the initiator cycle again, as line 263
\* does at construction
Advance_resetting_initiator_cycle(k) ==
  /\ AdvanceSearch(k)
  /\ initiator_cycle' = <<initiator>>
  /\ UNCHANGED <<neighbours, initiator, symmetries, cycles>>

\* a step of search k: it reads the graph and writes its own frames only
Advance(k) ==
  /\ AdvanceSearch(k)
  /\ UNCHANGED <<neighbours, initiator, symmetries, cycles, initiator_cycle>>

NextShared ==
  \/ Next
  \/ StartSearches
  \/ \E k \in 1..2 : Advance(k)
  \/ Parse

SpecShared == InitSearch /\ [][NextShared]_vars

\* ------------------------------------------- yield_matches, step by step
\* One Graph.yield_matches call of a caller, run as the interpreter runs it:
\* frames holds the generators of the call and of its recursive calls, heap
\* the OneToOne objects they pass to each other, an object being known by its
\* position in heap.  A frame holds the locals of one call:
\*   node, thing      the arguments
\*   match            the object given as match
\*   was              what that object held when the call was made
\*   phase            "entry": before the entry checks;
\*                    "sets": in the loop over the relation sets;
\*                    "pairs": in the loop over the pairs of a relation set;
\*                    "yield": at the loop that yields new_matches
\*   dead             why the call gave up at its entry: "degree", "conflict",
\*                    or "" if it did not
\*   sets             the relation sets the loop has yet to go through
\*   relation_set     the pairs of the current relation set yet to go through,
\*                    the current one first
\*   former_matches   the objects the inner loop has yet to go through
\*   new_matches      new_matches
\*   out              the objects the call has yielded so far
\* The arguments thing_neighbours, allow_more and no_duplicates are those of
\* the caller in every frame: thing_neighbours, call[3] and call[4].

new_frame(node, thing, match, was) ==
  [node |-> node, thing |-> thing, match |-> match, was |-> was,
   phase |-> "entry", dead |-> "", sets |-> << >>, relation_set |-> << >>,
   former_matches |-> << >>, new_matches |-> << >>, out |-> << >>]

\* the frame of the running call
top == frames[Len(frames)]

\* self.neighbours[node] or thing_neighbours[thing] of an absent key
lookup_fails(f) ==
  f.node \notin DOMAIN neighbours \/ f.thing \notin DOMAIN thing_neighbours

\* the two degree checks at the entry of yield_matches
degree_fails(f) ==
  \/ call[3] /\ Len(neighbours[f.node]) > Len(thing_neighbours[f.thing])
  \/ ~ call[3] /\ Len(neighbours[f.node]) # Len(thing_neighbours[f.thing])

\* a bare return at the entry: the generator will end without a match
gave_up(f, why, obj) ==
  [frame |-> [f EXCEPT !.phase = "sets", !.dead = why], obj |-> obj,
   raised |-> ""]

\* after add_relation succeeded: "yield match; return" if the match is
\* complete, the relation sets of the loop otherwise
went_on(f, obj) ==
  IF len(obj) = Cardinality(DOMAIN neighbours)
  THEN [frame |-> [f EXCEPT !.phase = "sets", !.out = <<f.match>>],
        obj |-> obj, raised |-> ""]
  ELSE [frame |-> [f EXCEPT !.phase = "sets",
          !.sets = IF call[4]
                   THEN relations_without_symmetric_images(
                          neighbours[f.node], thing_neighbours[f.thing], obj,
                          thing_neighbours, call[3], 0)
                   ELSE all_relations(
                          neighbours[f.node], thing_neighbours[f.thing], obj,
                          thing_neighbours, call[3])],
        obj |-> obj, raised |-> ""]

\* a slip: the entry of a call does not add node -> thing to the match
enter_without_add_relation(f, obj) ==
  IF lookup_fails(f)
  THEN [frame |-> f, obj |-> obj, raised |-> "KeyError"]
  ELSE IF degree_fails(f) THEN gave_up(f, "degree", obj)
  ELSE went_on(f, obj)

\* a slip: a conflict with the match is an exception
enter_raising_conflict(f, obj) ==
  IF lookup_fails(f)
  THEN [frame |-> f, obj |-> obj, raised |-> "KeyError"]
  ELSE IF degree_fails(f) THEN gave_up(f, "degree", obj)
  ELSE LET added == add_relation(obj, f.node, f.thing)
       IN  IF ~ added.ok
           THEN [gave_up(f, "conflict", obj) EXCEPT !.raised = "ConflictError"]
           ELSE went_on(f, added.m)

\* a slip: the degrees of node and thing are not compared at the entry
enter_without_degree_check(f, obj) ==
  IF lookup_fails(f)
  THEN [frame |-> f, obj |-> obj, raised |-> "KeyError"]
  ELSE LET added == add_relation(obj, f.node, f.thing)
       IN  IF ~ added.ok THEN gave_up(f, "conflict", added.m)
           ELSE went_on(f, added.m)

\* a slip: a relation that conflicts with the match is written into it
enter_overwriting_conflict(f, obj) ==
  IF lookup_fails(f)
  THEN [frame |-> f, obj |-> obj, raised |-> "KeyError"]
  ELSE IF degree_fails(f) THEN gave_up(f, "degree", obj)
  ELSE LET added == add_relation(obj, f.node, f.thing)
       IN  IF ~ added.ok
           THEN gave_up(f, "conflict",
                        [forward  |-> Put(obj.forward, f.node, f.thing),
                         backward |-> Put(obj.backward, f.thing, f.node)])
           ELSE went_on(f, added.m)

\* yield_matches from its call to its loop over the relation sets, for the
\* frame f of the call and the content obj of its match: the frame and the
\* content afterwards, and the exception if one is raised
enter(f, obj) ==
  IF lookup_fails(f)
  THEN [frame |-> f, obj |-> obj, raised |-> "KeyError"]
  ELSE IF degree_fails(f) THEN gave_up(f, "degree", obj)
  ELSE LET added == add_relation(obj, f.node, f.thing)
       IN  IF ~ added.ok THEN gave_up(f, "conflict", added.m)
           ELSE went_on(f, added.m)

\* a slip: the branch of a relation set works on the match of the call
branch_without_copy(f) == f.match

\* former_matches = [copy.copy(match)]: the new object has the next free
\* position of heap
branch(f) == Len(heap) + 1

\* what yield_matching_subgraphs yields of the matches yield_matches gives
\* it, one after the other, until lowest_initiator raises
RECURSIVE YieldedOf(_, _)
YieldedOf(matches, out) ==
  IF matches = << >> THEN [yielded |-> out, state |-> "done"]
  ELSE IF lowest_initiator_raises(Head(matches))
  THEN [yielded |-> out, state |-> "raised"]
  ELSE YieldedOf(Tail(matches),
                 IF lowest_initiator(Head(matches))
                 THEN Append(out, Head(matches)) ELSE out)

\* a caller calls graph.yield_matches(node, thing, thing_neighbours,
\* OneToOne(), allow_more, no_duplicates)
CallYieldMatches ==
  /\ pc = "ready"
  /\ \E tn \in Targets, allow_more \in BOOLEAN, no_duplicates \in BOOLEAN :
       \E node \in DOMAIN neighbours, thing \in DOMAIN tn :
         /\ thing_neighbours' = tn
         /\ call' = <<node, thing, allow_more, no_duplicates>>
         /\ heap' = <<OneToOne>>
         /\ frames' = <<new_frame(node, thing, 1, OneToOne)>>
  /\ operands' = <<OneToOne>>
  /\ result' = << >>
  /\ found' = << >>
  /\ pc' = "running"
  /\ UNCHANGED <<pairs, neighbours, initiator, symmetries, cycles,
                 initiator_cycle, seeds, pending, things, yielded, raised>>
  /\ UNCHANGED <<bijVars, searches>>

\* a caller calls graph.yield_matching_subgraphs(thing_neighbours) and reads
\* the generator on: the loop over the things calls yield_matches for the
\* first thing
CallYieldMatchingSubgraphs ==
  /\ pc = "ready"
  /\ \E tn \in Targets :
       LET order == SortedSeq(DOMAIN tn)
       IN  /\ thing_neighbours' = tn
           /\ IF order = << >>
              THEN /\ call' = << >>
                   /\ things' = << >>
                   /\ frames' = << >>
                   /\ pc' = "finished"
              ELSE /\ call' = <<initiator, Head(order), TRUE, TRUE>>
                   /\ things' = Tail(order)
                   /\ frames' = <<new_frame(initiator, Head(order), 1,
                                            OneToOne)>>
                   /\ pc' = "searching"
  /\ heap' = <<OneToOne>>
  /\ operands' = <<OneToOne>>
  /\ result' = << >>
  /\ found' = << >>
  /\ yielded' = << >>
  /\ UNCHANGED <<pairs, neighbours, initiator, symmetries, cycles,
                 initiator_cycle, seeds, pending, raised>>
  /\ UNCHANGED <<bijVars, searches>>

\* what the steps of a running call leave alone
FrameStep ==
  /\ pc \in {"running", "searching"}
  /\ frames # << >>
  /\ UNCHANGED <<pairs, neighbours, initiator, symmetries, cycles,
                 initiator_cycle, seeds, pending, thing_neighbours>>
  /\ UNCHANGED <<bijVars, operands, searches>>

\* The matches a call yields go to new_matches of its caller when the call
\* ends.  Those of the first call go to its caller as they are yielded, and
\* are recorded as they are at that moment; yield_matching_subgraphs yields
\* those of them that pass lowest_initiator.
Delivered(objs_yielded, heap_then) ==
  LET matches == [i \in DOMAIN objs_yielded |-> heap_then[objs_yielded[i]]]
      got == YieldedOf(matches, yielded)
  IN  IF Len(frames) # 1 THEN UNCHANGED <<result, found, yielded, raised, pc>>
      ELSE /\ result' = result \o objs_yielded
           /\ found' = found \o matches
           /\ IF pc = "searching"
              THEN /\ yielded' = got.yielded
                   /\ raised' = IF got.state = "raised" THEN "KeyError"
                                ELSE raised
                   /\ pc' = IF got.state = "raised" THEN "raised" ELSE pc
              ELSE UNCHANGED <<yielded, raised, pc>>

\* the entry checks, add_relation, and the test of completeness
Enter ==
  /\ FrameStep
  /\ top.phase = "entry"
  /\ LET entered == enter(top, heap[top.match])
         heap_then == [heap EXCEPT ![top.match] = entered.obj]
     IN  /\ frames' = [frames EXCEPT ![Len(frames)] = entered.frame]
         /\ heap' = heap_then
         /\ IF entered.raised # ""
            THEN /\ raised' = entered.raised
                 /\ pc' = "raised"
                 /\ UNCHANGED <<result, found, yielded>>
            ELSE Delivered(entered.frame.out, heap_then)
  /\ UNCHANGED <<things, call>>

\* the loop over the relation sets takes the next one
NextRelationSet ==
  /\ FrameStep
  /\ top.phase = "sets"
  /\ top.sets # << >>
  /\ LET relation_set == Head(top.sets)
     IN  IF Len(relation_set) = 0
         THEN /\ frames' = [frames EXCEPT ![Len(frames)].sets = Tail(top.sets)]
              /\ UNCHANGED heap
         ELSE /\ frames' = [frames EXCEPT ![Len(frames)] =
                   [top EXCEPT !.sets = Tail(top.sets),
                               !.relation_set = relation_set,
                               !.former_matches = <<branch(top)>>,
                               !.new_matches = << >>,
                               !.phase = "pairs"]]
              /\ heap' = IF branch(top) > Len(heap)
                         THEN Append(heap, copy(heap[top.match]))
                         ELSE heap
  /\ UNCHANGED <<pc, raised, result, found, yielded, things, call>>

\* the inner loop finds the pair in former_match and keeps former_match
Keep ==
  /\ FrameStep
  /\ top.phase = "pairs"
  /\ top.former_matches # << >>
  /\ LET former_match == Head(top.former_matches)
         node == top.relation_set[1][1]
         thing == top.relation_set[1][2]
     IN  /\ in_sources(heap[former_match], node)
         /\ get_destination(heap[former_match], node) = thing
         /\ frames' = [frames EXCEPT ![Len(frames)] =
              [top EXCEPT !.former_matches = Tail(top.former_matches),
                          !.new_matches = Append(top.new_matches,
                                                 former_match)]]
  /\ UNCHANGED <<pc, raised, heap, result, found, yielded, things, call>>

\* the inner loop calls yield_matches with former_match
Recurse ==
  /\ FrameStep
  /\ top.phase = "pairs"
  /\ top.former_matches # << >>
  /\ LET former_match == Head(top.former_matches)
         node == top.relation_set[1][1]
         thing == top.relation_set[1][2]
     IN  /\ ~ (/\ in_sources(heap[former_match], node)
               /\ get_destination(heap[former_match], node) = thing)
         /\ frames' = Append(frames, new_frame(node, thing, former_match,
                                               heap[former_match]))
  /\ UNCHANGED <<pc, raised, heap, result, found, yielded, things, call>>

\* the inner loop is over: former_matches = new_matches, and the next pair
NextPair ==
  /\ FrameStep
  /\ top.phase = "pairs"
  /\ top.former_matches = << >>
  /\ frames' = [frames EXCEPT ![Len(frames)] =
       IF Len(top.relation_set) = 1
       THEN [top EXCEPT !.relation_set = << >>, !.phase = "yield"]
       ELSE [top EXCEPT !.relation_set = Tail(top.relation_set),
                        !.former_matches = top.new_matches,
                        !.new_matches = << >>]]
  /\ UNCHANGED <<pc, raised, heap, result, found, yielded, things, call>>

\* the call yields new_matches
YieldNew ==
  /\ FrameStep
  /\ top.phase = "yield"
  /\ frames' = [frames EXCEPT ![Len(frames)] =
       [top EXCEPT !.out = top.out \o top.new_matches,
                   !.new_matches = << >>, !.phase = "sets"]]
  /\ Delivered(top.new_matches, heap)
  /\ UNCHANGED <<heap, things, call>>

\* The generator of the running call ends.  Its matches are in the list its
\* caller extends new_matches with; after the first call,
\* yield_matching_subgraphs calls yield_matches for its next thing, with
\* a new OneToOne().
Return ==
  /\ FrameStep
  /\ top.phase = "sets"
  /\ top.sets = << >>
  /\ IF Len(frames) > 1
     THEN /\ LET caller == frames[Len(frames) - 1]
             IN  frames' = [SubSeq(frames, 1, Len(frames) - 1)
                            EXCEPT ![Len(frames) - 1] =
                   [caller EXCEPT
                      !.former_matches = Tail(caller.former_matches),
                      !.new_matches = caller.new_matches \o top.out]]
          /\ UNCHANGED <<pc, heap, things, call>>
     ELSE IF pc = "searching" /\ things # << >>
     THEN /\ frames' = <<new_frame(initiator, Head(things), Len(heap) + 1,
                                   OneToOne)>>
          /\ heap' = Append(heap, OneToOne)
          /\ call' = [call EXCEPT ![2] = Head(things)]
          /\ things' = Tail(things)
          /\ UNCHANGED pc
     ELSE /\ frames' = << >>
          /\ pc' = "finished"
          /\ UNCHANGED <<heap, things, call>>
  /\ UNCHANGED <<raised, result, found, yielded>>

NextFrames ==
  \/ Next
  \/ CallYieldMatches
  \/ CallYieldMatchingSubgraphs
  \/ Enter
  \/ NextRelationSet
  \/ Keep
  \/ Recurse
  \/ NextPair
  \/ YieldNew
  \/ Return

SpecFrames == InitSearch /\ [][NextFrames]_vars

\* the steps of a call that is running
RunningCall ==
  Enter \/ NextRelationSet \/ Keep \/ Recurse \/ NextPair \/ YieldNew \/ Return

\* The interpreter goes on with what it has begun: the construction, and a
\* call that is running, its caller reading the generator on.
SpecLive ==
  /\ InitSearch
  /\ [][NextFrames]_vars
  /\ WF_vars(Next)
  /\ WF_vars(RunningCall)

\* ------------------------------------------- the relation sets of one call
\* the edge lists that hold the edges of ps, each as often, in any order and
\* direction
Reorderings(ps) ==
  LET edge(l, i) == {l[i][1], l[i][2]}
      times(l, e) == Cardinality({i \in DOMAIN l : edge(l, i) = e})
  IN  {l \in EdgeLists :
         /\ Len(l) = Len(ps)
         /\ \A i \in DOMAIN ps : times(l, edge(ps, i)) = times(ps, edge(ps, i))}

\* a caller searches the pattern in a graph with the same edges, listed in
\* another order: graph.yield_matches(node, thing, thing_neighbours,
\* OneToOne(), allow_more), no_duplicates left at its default
CallOnReordering ==
  /\ pc = "ready"
  /\ \E l \in Reorderings(pairs), allow_more \in BOOLEAN :
       LET tn == init_neighbours(l)
       IN  \E node \in DOMAIN neighbours, thing \in DOMAIN tn :
             /\ thing_neighbours' = tn
             /\ call' = <<node, thing, allow_more, TRUE>>
             /\ heap' = <<OneToOne>>
             /\ frames' = <<new_frame(node, thing, 1, OneToOne)>>
  /\ operands' = <<OneToOne>>
  /\ result' = << >>
  /\ found' = << >>
  /\ pc' = "running"
  /\ UNCHANGED <<pairs, neighbours, initiator, symmetries, cycles,
                 initiator_cycle, seeds, pending, things, yielded, raised>>
  /\ UNCHANGED <<bijVars, searches>>

\* the construction of a graph, a call on a reordering of it, and the entry
\* of that call, which computes the relation sets of its loop
NextRelations ==
  \/ Next
  \/ CallOnReordering
  \/ Enter

SpecRelations == Init /\ [][NextRelations]_vars

\* ============================================================= properties
IsInjective(f) == \A a \in DOMAIN f, b \in DOMAIN f : f[a] = f[b] => a = b

\* how often x occurs in the list s
Count(x, s) == Cardinality({i \in DOMAIN s : s[i] = x})

\* no neighbour list names a node twice
NoRepeatedEdges(nb) ==
  \A a \in DOMAIN nb : \A i \in DOMAIN nb[a], j \in DOMAIN nb[a] :
    nb[a][i] = nb[a][j] => i = j

RECURSIVE Reach(_, _)
Reach(nb, S) ==
  LET more == S \cup UNION {Range(nb[x]) : x \in S}
  IN  IF more = S THEN S ELSE Reach(nb, more)

\* the graph with these neighbour lists has one connected component
Connected(nb) ==
  /\ DOMAIN nb # {}
  /\ Reach(nb, {CHOOSE x \in DOMAIN nb : TRUE}) = DOMAIN nb

\* the permutations of the node set that map the edge list onto itself
Automorphisms(nb) ==
  {f \in [DOMAIN nb -> DOMAIN nb] :
     /\ IsInjective(f)
     /\ \A a \in DOMAIN nb, b \in DOMAIN nb :
          Count(b, nb[a]) = Count(f[b], nb[f[a]])}

\* the injective maps of the pattern nodes to things that send the pattern
\* edges to target edges, an edge listed k times needing k target edges
Embeddings(nb, tn) ==
  {e \in [DOMAIN nb -> DOMAIN tn] :
     /\ IsInjective(e)
     /\ \A a \in DOMAIN nb, b \in DOMAIN nb :
          Count(b, nb[a]) <= Count(e[b], tn[e[a]])}

\* the forward table of m is "p, then e"
IsRelabeling(m, e, p) ==
  /\ DOMAIN m.forward = DOMAIN p.forward
  /\ \A s \in DOMAIN p.forward :
       /\ p.forward[s] \in DOMAIN e
       /\ m.forward[s] = e[p.forward[s]]

Identity(S) == [x \in S |-> x]

\* forward[s] = d exactly when backward[d] = s
Consistent(m) ==
  /\ \A s \in DOMAIN m.forward :
       m.forward[s] \in DOMAIN m.backward /\ m.backward[m.forward[s]] = s
  /\ \A d \in DOMAIN m.backward :
       m.backward[d] \in DOMAIN m.forward /\ m.forward[m.backward[d]] = d

\* m is injective and sends every pattern edge between matched nodes to an
\* edge of the target tn
IsPartialEmbedding(m, tn) ==
  /\ IsInjective(m.forward)
  /\ \A a \in DOMAIN m.forward : \A i \in DOMAIN neighbours[a] :
       neighbours[a][i] \in DOMAIN m.forward
         => InSeq(m.forward[neighbours[a][i]], tn[m.forward[a]])

\* C1: when yield_matching_subgraphs has ended on a connected pattern, every
\* embedding of the pattern into the target is a yielded match relabelled by
\* a symmetry of the pattern: no embedding is lost.
C1_NoEmbeddingLost ==
  (pc = "done" /\ Connected(neighbours)) =>
    \A e \in Embeddings(neighbours, thing_neighbours) :
      \E i \in DOMAIN yielded : \E k \in DOMAIN symmetries :
        IsRelabeling(yielded[i], e, symmetries[k])

\* C2: no two matches yielded by one run of yield_matching_subgraphs are
\* relabelings of one another by a symmetry of the pattern (the identity
\* included: no match is yielded twice).  Stated for patterns and targets
\* that list no edge twice, where every yielded match is a distinct walk.
C2_NoSymmetricDuplicates ==
  (NoRepeatedEdges(neighbours) /\ NoRepeatedEdges(thing_neighbours)) =>
    \A i \in DOMAIN yielded, j \in DOMAIN yielded :
      i < j => ~ \E k \in DOMAIN symmetries :
                 IsRelabeling(yielded[i], yielded[j].forward, symmetries[k])

\* C3: every match yielded by yield_matches from an empty bijection, for any
\* seed and any allow_more and no_duplicates, is injective and sends every
\* pattern edge between matched nodes to an edge of the target.  found holds
\* the matches of a caller's call, pending those of a find_symmetries call
\* (whose target is the pattern itself).
C3_MatchesPreserveAdjacency ==
  /\ \A i \in DOMAIN found : IsPartialEmbedding(found[i], thing_neighbours)
  /\ \A i \in DOMAIN pending : IsPartialEmbedding(pending[i], neighbours)

C3_Witness ==
  /\ pc = "called"
  /\ call[3]
  /\ Len(found) > 1
  /\ len(found[1]) = Cardinality(DOMAIN neighbours)
  /\ \E a \in DOMAIN neighbours :
       Len(neighbours[a]) < Len(thing_neighbours[found[1].forward[a]])

\* C4: every match that a yield_matches call started with an empty bijection
\* yields to its caller has an image for every node of the pattern, whatever
\* the pattern.
C4_YieldedMatchesComplete ==
  /\ \A i \in DOMAIN pending : len(pending[i]) = Cardinality(DOMAIN neighbours)
  /\ \A i \in DOMAIN found : len(found[i]) = Cardinality(DOMAIN neighbours)
  /\ \A i \in DOMAIN yielded : len(yielded[i]) = Cardinality(DOMAIN neighbours)

\* C5: once the graph is built, every automorphism of the pattern is a value
\* of symmetries, and symmetries has as many entries as there are
\* automorphisms.
C5_AllAutomorphismsFound ==
  pc = "ready" =>
    /\ \A f \in Automorphisms(neighbours) :
         \E k \in DOMAIN symmetries : symmetries[k].forward = f
    /\ Cardinality(DOMAIN symmetries)
         = Cardinality(Automorphisms(neighbours))

\* C6: once the graph is built, every value of symmetries is a closed
\* permutation of the whole node set of the pattern that preserves adjacency,
\* whatever the pattern.
C6_SymmetriesAreAutomorphisms ==
  pc = "ready" =>
    \A k \in DOMAIN symmetries :
      /\ get_closed(symmetries[k])
      /\ DOMAIN symmetries[k].forward = DOMAIN neighbours
      /\ IsPartialEmbedding(symmetries[k], neighbours)

\* C7: once the graph is built, the identity on the whole node set is a
\* value of symmetries, whatever the pattern.
C7_IdentityPresent ==
  pc = "ready" =>
    \E k \in DOMAIN symmetries :
      symmetries[k].forward = Identity(DOMAIN neighbours)

\* C8: the inverse of every value of symmetries is a value of symmetries, in
\* every state of the symmetry analysis and after it.
C8_InversePresent ==
  \A k \in DOMAIN symmetries :
    \E j \in DOMAIN symmetries :
      /\ symmetries[j].forward = symmetries[k].backward
      /\ symmetries[j].backward = symmetries[k].forward

C8_Witness ==
  /\ pc = "ready"
  /\ \E k \in DOMAIN symmetries :
       /\ symmetries[k].forward # symmetries[k].backward
       /\ Cardinality(DOMAIN symmetries[k].forward) = 3

\* C9: yield_matching_subgraphs of a connected pattern on its own neighbour
\* dictionary yields one match, the identity.
C9_SelfMatchIsIdentity ==
  (pc = "done" /\ thing_neighbours = neighbours /\ Connected(neighbours)) =>
    /\ Len(yielded) = 1
    /\ yielded[1].forward = Identity(DOMAIN neighbours)

\* C10: in every state, whatever add_relation calls (accepted or refused),
\* copies and inverses were made, forward and backward of every object are
\* inverse to each other: forward[s] = d exactly when backward[d] = s, both
\* injective and of the same size.
C10_BijectionConsistent ==
  \A i \in DOMAIN objs :
    /\ Consistent(objs[i])
    /\ IsInjective(objs[i].forward)
    /\ IsInjective(objs[i].backward)
    /\ Cardinality(DOMAIN objs[i].forward)
         = Cardinality(DOMAIN objs[i].backward)

C10_Witness ==
  /\ ~ ret
  /\ len(objs[1]) = 2
  /\ objs[2] = inverse(objs[1])
  /\ objs[2] # objs[1]

\* C11: an add_relation call returns true and changes nothing when the
\* relation is already present; returns true and adds exactly that relation
\* when neither the source nor the destination is used; and returns false
\* and changes nothing when the source maps to another destination or the
\* destination is the image of another source.  No other object changes.
C11_AddRelationContract ==
  (pc = "returned" /\ Len(call) = 3) =>
    LET i == call[1]
        s == call[2]
        d == call[3]
        old == operands[i]
        new == objs[i]
    IN  /\ \A j \in DOMAIN objs : j # i => objs[j] = operands[j]
        /\ (s \in DOMAIN old.forward /\ old.forward[s] = d)
             => (ret /\ new = old)
        /\ (s \notin DOMAIN old.forward /\ d \notin DOMAIN old.backward)
             => /\ ret
                /\ DOMAIN new.forward = DOMAIN old.forward \cup {s}
                /\ DOMAIN new.backward = DOMAIN old.backward \cup {d}
                /\ new.forward[s] = d
                /\ new.backward[d] = s
                /\ \A x \in DOMAIN old.forward : new.forward[x] = old.forward[x]
                /\ \A y \in DOMAIN old.backward :
                     new.backward[y] = old.backward[y]
        /\ (\/ (s \in DOMAIN old.forward /\ old.forward[s] # d)
            \/ (d \in DOMAIN old.backward /\ old.backward[d] # s))
             => (~ ret /\ new = old)

C11_Witness ==
  /\ pc = "returned"
  /\ Len(call) = 3
  /\ ~ ret
  /\ call[2] \notin DOMAIN operands[call[1]].forward
  /\ call[3] \in DOMAIN operands[call[1]].backward
  /\ len(operands[call[1]]) = 2

\* C12: the product self * other is "other, then self": its sources are the
\* sources of other, and every source s of other is sent to
\* self.forward[other.forward[s]].
C12_ComposeAfter ==
  (pc = "returned" /\ Len(call) = 2 /\ raised = "") =>
    LET self == operands[call[1]]
        other == operands[call[2]]
        product == result[1]
    IN  /\ DOMAIN product.forward = DOMAIN other.forward
        /\ \A s \in DOMAIN other.forward :
             /\ other.forward[s] \in DOMAIN self.forward
             /\ product.forward[s] = self.forward[other.forward[s]]

\* C13: for every symmetry p of a built connected pattern and the identity on
\* its nodes, p * identity and identity * p both return p, with the forward
\* and backward tables of p.
C13_CompositionIdentity ==
  (pc = "returned" /\ Connected(neighbours)) =>
    LET p == IF call[1] = "after" THEN operands[1] ELSE operands[2]
    IN  /\ raised = ""
        /\ result = <<p>>

\* C15 as claimed: the construction of a Graph from an empty edge list ends
\* with ValueError.
C15_EmptyRaisesValueError ==
  (pairs = << >> /\ pc # "new") => (pc = "raised" /\ raised = "ValueError")

\* C15 as the code has it: the construction of a Graph from an empty edge
\* list ends with IndexError, right after init_neighbours, and no symmetry
\* analysis is made: no graph comes out.
C15_EmptyRaisesIndexError ==
  (pairs = << >> /\ pc # "new") =>
    /\ pc = "raised"
    /\ raised = "IndexError"
    /\ symmetries = EmptyMap
    /\ cycles = << >>
    /\ initiator_cycle = << >>

C15_Witness ==
  /\ pairs = << >>
  /\ pc = "raised"
  /\ neighbours = EmptyMap

\* C14: the product self * other fails exactly when some destination of
\* other is not a source of self, and neither operand is changed by the call.
C14_DomainError ==
  (pc = "returned" /\ Len(call) = 2) =>
    LET self == operands[call[1]]
        other == operands[call[2]]
    IN  /\ (raised # "") <=>
             (\E d \in DOMAIN other.backward : d \notin DOMAIN self.forward)
        /\ objs = operands

\* "p, then match": what the spec calls match composed with the symmetry p
Transformed(match, p) ==
  [s \in DOMAIN p.forward |-> match.forward[p.forward[s]]]

\* the checks of the filter pass for every node and every edge of the pattern
\* when node n is put on thing t[n]
ChecksPass(filter, t) ==
  \A node \in DOMAIN neighbours :
    /\ check_thing(filter, node, t[node])
    /\ \A i \in DOMAIN neighbours[node] :
         check_relation(filter, {node, neighbours[node][i]},
                        {t[node], t[neighbours[node][i]]}) = "True"

\* the criteria of the filter accept the match that puts node n on thing
\* t[n]: a node or an edge without criterion is accepted
CriteriaAccept(filter, t) ==
  \A node \in DOMAIN neighbours :
    /\ node \in DOMAIN filter.thing_criteria
         => t[node] \in filter.thing_criteria[node]
    /\ \A i \in DOMAIN neighbours[node] :
         LET edge == {node, neighbours[node][i]}
         IN  edge \in DOMAIN filter.relation_criteria
               => {t[node], t[neighbours[node][i]]}
                    \in filter.relation_criteria[edge]

\* C16: parse of a filter with working predicates (MatchFilterMolecular), on
\* a complete match of a connected pattern, returns the first, in the order
\* of the iteration over symmetries, of the bijections "symmetry, then
\* match" that pass every check, and None exactly when none passes.
C16_ParseReturnsFirst ==
  (/\ pc = "returned"
   /\ Connected(neighbours)
   /\ call[1].kind = "MatchFilterMolecular") =>
    LET filter == call[1]
        order == call[2]
        match == operands[1]
        candidate(i) == Transformed(match, symmetries[order[i]])
        passing == {i \in DOMAIN order : ChecksPass(filter, candidate(i))}
    IN  /\ raised = ""
        /\ IF passing = {} THEN result = << >>
           ELSE /\ Len(result) = 1
                /\ result[1].forward =
                     candidate(CHOOSE i \in passing :
                                 \A j \in passing : i <= j)

\* C17: check_thing and check_relation of MatchFilterParameterized are true
\* exactly when there is no criterion or the criterion accepts, so that
\* parse, on a complete match of a connected pattern, returns a transformed
\* match that every criterion accepts whenever some symmetry gives one, and
\* None only when none does.
C17_ParameterizedAppliesCriteria ==
  (/\ pc = "returned"
   /\ Connected(neighbours)
   /\ call[1].kind = "MatchFilterParameterized") =>
    LET filter == call[1]
        match == operands[1]
        accepted == {k \in DOMAIN symmetries :
                       CriteriaAccept(filter,
                                      Transformed(match, symmetries[k]))}
    IN  /\ raised = ""
        /\ (result = << >>) <=> (accepted = {})
        /\ \A i \in DOMAIN result :
             \E k \in accepted :
               result[i].forward = Transformed(match, symmetries[k])

\* the edge list without the repetitions of an edge, in either direction
RECURSIVE WithoutRepetitions(_)
WithoutRepetitions(ps) ==
  IF ps = << >> THEN << >>
  ELSE LET front == WithoutRepetitions(SubSeq(ps, 1, Len(ps) - 1))
           last == ps[Len(ps)]
       IN  IF \E i \in DOMAIN front : {front[i][1], front[i][2]}
                                         = {last[1], last[2]}
           THEN front
           ELSE Append(front, last)

\* C18: a graph built from an edge list that repeats an edge has the
\* adjacency (the same neighbours, the same number of neighbours of every
\* node) of the graph built from the list without the repetition.
C18_DuplicateEdgesTolerated ==
  pc \in {"symmetries", "ready"} =>
    neighbours = init_neighbours(WithoutRepetitions(pairs))

\* what the graph is made of, once built
graphFields == <<neighbours, symmetries, cycles, initiator, initiator_cycle>>

\* C19: the pattern graph is read-only after construction: no step of a
\* search (of yield_matching_subgraphs and of the yield_matches call it
\* reads) and no call of parse changes neighbours, symmetries, cycles,
\* initiator or initiator_cycle, whatever the point at which the consumers
\* of the searches stand
C19_GraphReadOnly ==
  [][(pc \in {"ready", "shared", "returned"}) => (graphFields' = graphFields)]_vars

\* a search that yielded a match and has more to give, over a graph whose
\* initiator cycle holds more than the initiator
C19_Witness ==
  /\ pc = "shared"
  /\ Len(initiator_cycle) > 1
  /\ neighbours = init_neighbours(pairs)
  /\ \E k \in DOMAIN searches :
       /\ searches[k].state = "running"
       /\ searches[k].yielded # << >>
       /\ searches[k].buffer # << >>
       /\ searches[k].things # << >>

IsPrefix(a, b) == Len(a) <= Len(b) /\ SubSeq(b, 1, Len(a)) = a

\* yield_matching_subgraphs(tn), read to its end by a lone consumer
Alone(tn) ==
  LET order == SortedSeq(DOMAIN tn)
  IN  YieldedOf(FlatMap(LAMBDA i :
                  yield_matches(initiator, order[i], tn, OneToOne, TRUE, TRUE),
                  1, Len(order)),
                << >>)

\* C20: of two searches of one graph, advanced in any interleaving, each has
\* yielded at every moment a prefix of what it yields when run alone, and the
\* whole of it, ending the same way, once it has ended
C20_InterleavedSearchesRunAsAlone ==
  pc = "shared" =>
    \A k \in DOMAIN searches :
      LET alone == Alone(searches[k].tn)
      IN  /\ IsPrefix(searches[k].yielded, alone.yielded)
          /\ searches[k].state # "running" =>
               /\ searches[k].yielded = alone.yielded
               /\ searches[k].state = alone.state

\* the second search has ended after yielding two matches or more, while the
\* first, on another target, has yielded a match and holds matches in wait
C20_Witness ==
  /\ pc = "shared"
  /\ searches[1].tn # searches[2].tn
  /\ searches[1].state = "running"
  /\ searches[1].yielded # << >>
  /\ searches[1].buffer # << >>
  /\ searches[2].state = "done"
  /\ Len(searches[2].yielded) >= 2

\* along the calls in progress, every call was made with a match that held
\* more relations than the match its caller was called with, and no object
\* lost or changed a relation it held when its call was made
MatchGrows ==
  /\ \A i \in 2..Len(frames) :
       len(frames[i].was) > len(frames[i - 1].was)
  /\ \A i \in DOMAIN frames :
       \A n \in DOMAIN frames[i].was.forward :
         /\ in_sources(heap[frames[i].match], n)
         /\ get_destination(heap[frames[i].match], n)
              = frames[i].was.forward[n]

\* C21: termination.  Whatever is begun ends: the construction of a graph
\* (pc "new", "symmetries") with the graph built or an exception, a
\* yield_matches call of a caller (pc "running"), whatever its seed and its
\* allow_more and no_duplicates, and a yield_matching_subgraphs generator that
\* is read on (pc "searching"), with the generator at its end or an
\* exception.  Every recursive call is made on a match with more relations
\* than its caller had on entry, and no pattern node is assigned twice on a
\* branch.
C21_Terminates ==
  /\ []MatchGrows
  /\ (pc \in {"new", "symmetries", "running", "searching"})
       ~> (pc \in {"ready", "finished", "raised"})

\* a call at the third level of the recursion that has passed its entry
C21_Witness ==
  /\ pc \in {"running", "searching"}
  /\ Len(frames) = 3
  /\ frames[3].phase = "sets"
  /\ frames[3].dead = ""

\* C22: dead branches are silent.  A yield_matches call that meets a degree
\* mismatch or a conflict with the match at its entry yields nothing, and no
\* exception is raised while a call of yield_matches or a generator of
\* yield_matching_subgraphs runs, nor when it has ended.
C22_DeadBranchesSilent ==
  /\ (frames # << >> \/ pc = "finished") => raised = ""
  /\ \A i \in DOMAIN frames :
       frames[i].dead # "" =>
         /\ frames[i].out = << >>
         /\ frames[i].sets = << >>
         /\ frames[i].new_matches = << >>

\* a recursive call that has given up because its relation conflicts with
\* the match it was given
C22_Witness ==
  /\ Len(frames) >= 2
  /\ top.dead = "conflict"
  /\ in_sources(top.was, top.node) \/ in_destinations(top.was, top.thing)
  /\ raised = ""

InitiatorImageLowest(match) ==
  \A i \in DOMAIN initiator_cycle :
    match.forward[initiator] <= match.forward[initiator_cycle[i]]

\* initiator_cycle is a longest of the cycles that hold the initiator, or the
\* initiator alone when no cycle holds it
LongestInitiatorCycle ==
  LET holding == {i \in DOMAIN cycles : InSeq(initiator, cycles[i])}
  IN  IF holding = {}
      THEN initiator_cycle = <<initiator>>
      ELSE \E i \in holding :
             /\ initiator_cycle = cycles[i]
             /\ \A j \in holding : Len(cycles[j]) <= Len(cycles[i])

\* C24: canonical selection.  During and after yield_matching_subgraphs,
\* initiator_cycle is a longest cycle of cycles that holds the initiator (the
\* initiator alone when there is none), and the yielded matches are exactly
\* the matches of yield_matches, in their order, whose image of the initiator
\* is the lowest of the images of the nodes of initiator_cycle.
C24_CanonicalSelection ==
  pc \in {"search", "done"} =>
    /\ LongestInitiatorCycle
    /\ yielded = SelectSeq(found, InitiatorImageLowest)

\* a finished search whose initiator lies on a cycle, with a match that was
\* accepted and a match that was refused
C24_Witness ==
  /\ pc = "done"
  /\ Len(initiator_cycle) > 1
  /\ yielded # << >>
  /\ Len(yielded) < Len(found)

\* the relation sets a call would go through if the first k neighbours of
\* list1 took neighbours of list2 at increasing positions and the others any
\* neighbour of list2 not taken, every pair passing worth_trying
Pairings(list1, list2, match, tn, allow_more, k) ==
  LET positions ==
        {q \in [DOMAIN list1 -> DOMAIN list2] :
           /\ \A i \in DOMAIN list1, j \in DOMAIN list1 :
                i # j => q[i] # q[j]
           /\ \A i \in 1..k, j \in 1..k : i < j => q[i] < q[j]
           /\ \A i \in DOMAIN list1 :
                worth_trying(match, tn, allow_more,
                             <<list1[i], list2[q[i]]>>)}
  IN  {[i \in DOMAIN list1 |-> <<list1[i], list2[q[i]]>>] : q \in positions}

\* a first call past its entry, about to go through its relation sets
AtRelationSets ==
  /\ pc = "running"
  /\ Len(frames) = 1
  /\ frames[1].phase = "sets"
  /\ frames[1].dead = ""
  /\ frames[1].out = << >>
  /\ call[4]

\* C25: deduplicated candidate enumeration.  The relation sets of a call
\* with no_duplicates are exactly the pairings of the neighbours of the node
\* with neighbours of the thing in which the first k neighbours, k being the
\* cycle prefix of the whole neighbour list, take positions that increase,
\* and the others take any position not taken.
C25_RelationSets ==
  AtRelationSets =>
    LET list1 == neighbours[frames[1].node]
        list2 == thing_neighbours[frames[1].thing]
    IN  Range(frames[1].sets)
          = Pairings(list1, list2, heap[frames[1].match], thing_neighbours,
                     call[3], len_cycle_prefix(list1))

\* get_closed_cycles(m) returns disjoint tuples of two or more elements, each
\* an orbit in the order of forward, that hold every source but the fixed
\* points
CycleDecomposition(m) ==
  LET got == get_closed_cycles(m)
      cs == got.cycles
      fixed == {s \in DOMAIN m.forward : m.forward[s] = s}
  IN  /\ ~ got.raised
      /\ \A i \in DOMAIN cs :
           /\ Len(cs[i]) >= 2
           /\ \A a \in DOMAIN cs[i], b \in DOMAIN cs[i] :
                a # b => cs[i][a] # cs[i][b]
           /\ \A a \in DOMAIN cs[i] :
                m.forward[cs[i][a]]
                  = cs[i][IF a = Len(cs[i]) THEN 1 ELSE a + 1]
      /\ \A i \in DOMAIN cs, j \in DOMAIN cs :
           i # j => Range(cs[i]) \cap Range(cs[j]) = {}
      /\ UNION {Range(cs[i]) : i \in DOMAIN cs} \cup fixed = DOMAIN m.forward
      /\ UNION {Range(cs[i]) : i \in DOMAIN cs} \cap fixed = {}

\* cycles holds the cycles of the recorded symmetries, each once
CyclesOfSymmetries ==
  /\ \A i \in DOMAIN cycles, j \in DOMAIN cycles :
       i # j => cycles[i] # cycles[j]
  /\ Range(cycles)
       = UNION {Range(get_closed_cycles(symmetries[k]).cycles)
                : k \in DOMAIN symmetries}

\* C26: cycle decomposition.  Every permutation that find_symmetries hands
\* to add_symmetry, and every recorded symmetry, is decomposed by
\* get_closed_cycles into disjoint orbits of two or more elements in forward
\* order that cover its sources but the fixed points; cycles holds each
\* cycle of each recorded symmetry once.
C26_CycleDecomposition ==
  /\ \A i \in DOMAIN pending : CycleDecomposition(pending[i])
  /\ \A k \in DOMAIN symmetries : CycleDecomposition(symmetries[k])
  /\ CyclesOfSymmetries

\* the match of a call as it is after its entry added node -> thing
AfterAdding(f) == add_relation(f.was, f.node, f.thing).m

\* no match yielded to the caller was changed afterwards, no two of them
\* are one object, and the match of every call past its entry is still as
\* it was after adding node -> thing
BranchesApart ==
  pc \in {"running", "searching", "finished"} =>
    /\ \A i \in DOMAIN result : heap[result[i]] = found[i]
    /\ \A i \in DOMAIN result, j \in DOMAIN result :
         i # j => result[i] # result[j]
    /\ \A d \in DOMAIN frames :
         (frames[d].phase # "entry" /\ frames[d].dead = "")
           => heap[frames[d].match] = AfterAdding(frames[d])

\* a step that begins a relation set gives it an object that did not exist
\* before, equal to the match of the call after adding node -> thing
BranchStartsFromCopy ==
  (/\ frames # << >>
   /\ Len(frames') = Len(frames)
   /\ frames[Len(frames)].phase = "sets"
   /\ frames'[Len(frames)].phase = "pairs")
    => LET f == frames[Len(frames)]
           former_match == frames'[Len(frames)].former_matches[1]
       IN  /\ former_match \notin DOMAIN heap
           /\ heap'[former_match] = AfterAdding(f)
           /\ \A o \in DOMAIN heap : heap'[o] = heap[o]

\* C27: copy on branch.  Within a yield_matches call every relation set
\* starts from a new copy of the match as it was after adding node -> thing;
\* exploring a relation set changes neither the match the other relation
\* sets start from nor a match already yielded, and no two yielded matches
\* are one object.
C27_CopyOnBranch == []BranchesApart /\ [][BranchStartsFromCopy]_vars

\* a finished call that yielded two different matches, from branches that
\* started from the same match
C27_Witness ==
  /\ pc = "finished"
  /\ Len(result) >= 2
  /\ found[1] # found[2]
  /\ Len(heap) >= 3

\* two adjacency maps of one graph: the same keys, and under every key the
\* same neighbours as often, in any order
SameGraph(tn1, tn2) ==
  /\ DOMAIN tn1 = DOMAIN tn2
  /\ \A t \in DOMAIN tn1 :
       /\ Len(tn1[t]) = Len(tn2[t])
       /\ \A x \in Range(tn1[t]) : Count(x, tn1[t]) = Count(x, tn2[t])

\* the things a match covers and the images of the edges of the pattern
ImageOf(match) ==
  LET nodes == DOMAIN match.forward
      ends == {e \in nodes \X nodes : InSeq(e[2], neighbours[e[1]])}
  IN  [things |-> {match.forward[n] : n \in nodes},
       edges  |-> {{match.forward[e[1]], match.forward[e[2]]} : e \in ends}]

ImagesOf(matches) == {ImageOf(matches[i]) : i \in DOMAIN matches}

\* C28: independence of target neighbour order.  When a search of a
\* connected pattern has ended, the search of the same target with its
\* neighbour lists in any other order yields as many matches, with the same
\* images of the nodes and edges of the pattern.
C28_TargetOrderIndependent ==
  (pc = "done" /\ Connected(neighbours)) =>
    \A tn \in Targets :
      SameGraph(tn, thing_neighbours) =>
        LET other == Alone(tn)
        IN  /\ other.state = "done"
            /\ Len(other.yielded) = Len(yielded)
            /\ ImagesOf(other.yielded) = ImagesOf(yielded)

\* q, then p
Then(q, p) == [x \in DOMAIN q.forward |-> p.forward[q.forward[x]]]

\* C29: the symmetries of a connected pattern are closed under composition
\* and free of duplicates: for any two values p and q of symmetries, q then
\* p is the forward table of a value of symmetries, and no two keys of
\* symmetries hold permutations with the same forward table.
C29_SymmetriesClosed ==
  (pc = "ready" /\ Connected(neighbours)) =>
    \A k1 \in DOMAIN symmetries, k2 \in DOMAIN symmetries :
      /\ \E k3 \in DOMAIN symmetries :
           symmetries[k3].forward = Then(symmetries[k2], symmetries[k1])
      /\ k1 # k2 => symmetries[k1].forward # symmetries[k2].forward

\* a connected pattern with two symmetries whose compositions in the two
\* orders differ
C29_Witness ==
  /\ pc = "ready"
  /\ Connected(neighbours)
  /\ \E k1 \in DOMAIN symmetries, k2 \in DOMAIN symmetries :
       Then(symmetries[k2], symmetries[k1])
         # Then(symmetries[k1], symmetries[k2])

\* match holds every relation of partial, with the same image
Extends(match, partial) ==
  /\ \A n \in DOMAIN partial.forward :
       /\ n \in DOMAIN match.forward
       /\ match.forward[n] = partial.forward[n]
  /\ \A t \in DOMAIN partial.backward :
       /\ t \in DOMAIN match.backward
       /\ match.backward[t] = partial.backward[t]

\* C30: matches only grow along a branch.  Every match a yield_matches call
\* has yielded holds node -> thing and every relation the match passed in
\* held when the call was made, with the same images; and a call that gave
\* up at its degree check or because node -> thing conflicts with the match
\* passed in has left that match exactly as it was.
C30_MatchesOnlyGrow ==
  /\ \A d \in DOMAIN frames :
       LET f == frames[d]
       IN  /\ \A i \in DOMAIN f.out :
                /\ Extends(heap[f.out[i]], f.was)
                /\ in_sources(heap[f.out[i]], f.node)
                /\ get_destination(heap[f.out[i]], f.node) = f.thing
           /\ f.dead # "" => (heap[f.match] = f.was /\ f.out = << >>)
  /\ pc = "running" =>
       \A i \in DOMAIN found :
         /\ in_sources(found[i], call[1])
         /\ get_destination(found[i], call[1]) = call[2]

\* a call made with a match of two relations or more has just given up,
\* because node -> thing conflicts with that match
C30_Witness ==
  /\ Len(frames) >= 2
  /\ top.dead = "conflict"
  /\ len(top.was) >= 2
  /\ heap[top.match] = top.was

====
